---- MODULE Spec2Model ----
(***************************************************************************)
(* A model of oxzmq-zmtp: the ZMTP frame codec (frame.rs), the greeting    *)
(* and the connection set-up (lib.rs), the NULL handshake and its          *)
(* Properties codec (handshake.rs, handshake/null.rs) and the socket-type  *)
(* compatibility matrix (socket.rs).                                       *)
(*                                                                         *)
(* Bytes are the integers 0..255, byte strings are sequences of bytes.     *)
(* usize is 64 bits wide (to_be_bytes yields 8 bytes).                     *)
(***************************************************************************)
EXTENDS Integers, Sequences, FiniteSets, TLC

VARIABLES
    \* ---- socket.rs: one query of the compatibility matrix
    cLocal, cRemote, cAsked, cResult,
    \* ---- frame.rs: a writer and a reader on one byte stream
    fFrames,      \* the frames the writer is asked to write, in order
    fNext,        \* index of the next frame the writer starts
    wr,           \* the in-flight Frame::write_to (its position and frame)
    wire,         \* bytes written to the stream and not yet read
    wireEof,      \* the writing side has closed the stream
    rd,           \* the in-flight Frame::read_new (its position and locals)
    fGot,         \* what the completed read_new calls returned, in order
    fWritten,     \* how many bytes were written to the stream so far
    fCancelled,   \* "read"/"write": a read_new/write_to was abandoned at an await
    \* ---- handshake.rs: one Properties map, written and parsed
    pPc,          \* "build", "written", "parsed"; "raw", "parsed_raw"
    pN,           \* the number of Properties::insert calls made
    pMap,         \* Properties.inner
    pBuf,         \* the bytes written by write_to, or the bytes handed to the parser
    pParsed,      \* what parse_from_slice returned
    pLog,         \* the Properties::insert calls made, in order: <<key, value>>
    \* ---- frame.rs: Frame::read_new on a stream of arbitrary bytes
    rIn,          \* the bytes the peer sends, in order
    rSent,        \* how many of them it has sent
    rWire,        \* bytes sent and not yet read
    rEof,         \* the peer has closed the stream
    rRd,          \* the in-flight Frame::read_new
    rOut,         \* what read_new returned
    \* ---- frame.rs: one Frame::new_fatal_error call
    eMsg,         \* msg: the sequence of its chars, each the sequence of its UTF-8 bytes
    ePc,          \* "loop", "slice" (the loop is over), "done"
    eI,           \* the index of the char the loop is at
    eIdx,         \* final_byte_idx
    eOut,         \* what the call returned
    \* ---- lib.rs: two Connection::new calls, one at each end of a duplex stream
    dPre,         \* dPre[i]: end i's greeting was on the stream before the calls
    dSide,        \* dSide[i]: the call at end i (its socket type, position, locals)
    dIn,          \* dIn[i]: bytes sent to end i and not yet read by it
    \* ---- lib.rs: one Connection::new against a peer
    nLocal,       \* socket_type: the local socket type
    nPeer,        \* the peer: the greeting and the frame bytes it sends, what it has sent
    nIn,          \* bytes sent by the peer and not yet read
    nInEof,       \* the peer has closed its sending side
    nOut,         \* bytes written to the stream
    nOutBroken,   \* the peer no longer receives: a write fails
    nPc,          \* the await Connection::new is suspended at, "done" when it returned
    nGreeting,    \* what Greeting::read_new returned
    nWr,          \* the in-flight Frame::write_to (READY or ERROR command)
    nRd,          \* the in-flight Frame::read_new of the handshake
    nHandshake,   \* what Handshake::perform returned
    nRemote,      \* what the conversion of the "socket-type" property returned
    nResult       \* what Connection::new returned

comboVars == <<cLocal, cRemote, cAsked, cResult>>
frameVars == <<fFrames, fNext, wr, wire, wireEof, rd, fGot, fWritten, fCancelled>>
propsVars == <<pPc, pN, pMap, pBuf, pParsed, pLog>>
rawVars == <<rIn, rSent, rWire, rEof, rRd, rOut>>
errVars == <<eMsg, ePc, eI, eIdx, eOut>>
pairVars == <<dPre, dSide, dIn>>
connVars ==
    <<nLocal, nPeer, nIn, nInEof, nOut, nOutBroken, nPc, nGreeting, nWr, nRd, nHandshake,
      nRemote, nResult>>
vars == <<comboVars, frameVars, propsVars, connVars, rawVars, errVars, pairVars>>

nonComboVars == <<frameVars, propsVars, connVars, rawVars, errVars, pairVars>>
nonFrameVars == <<comboVars, propsVars, connVars, rawVars, errVars, pairVars>>
nonPropsVars == <<comboVars, frameVars, connVars, rawVars, errVars, pairVars>>
nonConnVars == <<comboVars, frameVars, propsVars, rawVars, errVars, pairVars>>
nonRawVars == <<comboVars, frameVars, propsVars, connVars, errVars, pairVars>>
nonErrVars == <<comboVars, frameVars, propsVars, connVars, rawVars, pairVars>>
nonPairVars == <<comboVars, frameVars, propsVars, connVars, rawVars, errVars>>

-----------------------------------------------------------------------------
(* Bytes and strings                                                       *)

Byte == 0..255

\* u8::max_value()
U8_MAX == 255

\* n.to_be_bytes() truncated/extended to w bytes, most significant first
RECURSIVE BeBytes(_, _)
BeBytes(n, w) == IF w = 0 THEN <<>> ELSE Append(BeBytes(n \div 256, w - 1), n % 256)

\* usize::to_be_bytes on a 64-bit target
USIZE_BYTES == 8
UsizeToBeBytes(n) == BeBytes(n, USIZE_BYTES)

\* uN::from_be_bytes
RECURSIVE FromBeBytes(_)
FromBeBytes(bs) ==
    IF bs = <<>> THEN 0
    ELSE 256 * FromBeBytes(SubSeq(bs, 1, Len(bs) - 1)) + bs[Len(bs)]

\* s[from..] and s[..n] of a slice
Drop(s, n) == SubSeq(s, n + 1, Len(s))
Take(s, n) == SubSeq(s, 1, n)

\* n copies of the byte b
Rep(n, b) == [i \in 1..n |-> b]

\* all byte strings over alphabet A of length at most n
RECURSIVE StringsUpTo(_, _)
StringsUpTo(A, n) ==
    IF n = 0 THEN {<<>>}
    ELSE LET S == StringsUpTo(A, n - 1)
         IN  S \cup {Append(s, a) : s \in {t \in S : Len(t) = n - 1}, a \in A}

-----------------------------------------------------------------------------
(* socket.rs                                                               *)

SocketType ==
    {"Req", "Rep", "Dealer", "Router", "Pub", "Sub", "XPub", "XSub", "Push", "Pull", "Pair"}

\* the arm for Req with Router missing from its list
ReqAcceptsNoRouter == {"Rep"}

\* the arm for Req: [SocketType::Rep, SocketType::Router]
ReqAccepts == {"Rep", "Router"}

Accepts(self) ==
    CASE self = "Req"    -> ReqAccepts
      [] self = "Rep"    -> {"Req", "Dealer"}
      [] self = "Dealer" -> {"Rep", "Dealer", "Router"}
      [] self = "Router" -> {"Req", "Dealer", "Router"}
      [] self = "Pub"    -> {"Sub", "XSub"}
      [] self = "XPub"   -> {"Sub", "XSub"}
      [] self = "Sub"    -> {"Pub", "XPub"}
      [] self = "XSub"   -> {"Pub", "XPub"}
      [] self = "Push"   -> {"Pull"}
      [] self = "Pull"   -> {"Push"}
      [] self = "Pair"   -> {"Pair"}

valid_socket_combo(self, other) == other \in Accepts(self)

-----------------------------------------------------------------------------
(* std::str::from_utf8 / String::from_utf8: is the byte string valid UTF-8 *)

\* the smallest member of a non-empty set of numbers
Min(S) == CHOOSE x \in S : \A y \in S : x <= y

\* validity from position i on: ASCII bytes are skipped, the next multi-byte
\* sequence is checked against the well-formed byte ranges
RECURSIVE Utf8ValidFrom(_, _)
Utf8ValidFrom(bs, i) ==
    LET NonAscii == {j \in i..Len(bs) : bs[j] >= 128}
    IN  IF NonAscii = {} THEN TRUE
        ELSE LET k == Min(NonAscii)
                 b == bs[k]
                 In(j, lo, hi) == j <= Len(bs) /\ bs[j] >= lo /\ bs[j] <= hi
                 Cont(j) == In(j, 128, 191)
             IN  CASE b >= 194 /\ b <= 223 -> Cont(k + 1) /\ Utf8ValidFrom(bs, k + 2)
                   [] b = 224 -> In(k + 1, 160, 191) /\ Cont(k + 2) /\ Utf8ValidFrom(bs, k + 3)
                   [] (b >= 225 /\ b <= 236) \/ b = 238 \/ b = 239 ->
                          Cont(k + 1) /\ Cont(k + 2) /\ Utf8ValidFrom(bs, k + 3)
                   [] b = 237 -> In(k + 1, 128, 159) /\ Cont(k + 2) /\ Utf8ValidFrom(bs, k + 3)
                   [] b = 240 ->
                          In(k + 1, 144, 191) /\ Cont(k + 2) /\ Cont(k + 3)
                              /\ Utf8ValidFrom(bs, k + 4)
                   [] b >= 241 /\ b <= 243 ->
                          Cont(k + 1) /\ Cont(k + 2) /\ Cont(k + 3) /\ Utf8ValidFrom(bs, k + 4)
                   [] b = 244 ->
                          In(k + 1, 128, 143) /\ Cont(k + 2) /\ Cont(k + 3)
                              /\ Utf8ValidFrom(bs, k + 4)
                   [] OTHER -> FALSE

Utf8Valid(bs) == Utf8ValidFrom(bs, 1)

-----------------------------------------------------------------------------
(* frame.rs: frames and the flags octet                                    *)

MORE_FLAG_IDX == 0
LONG_FLAG_IDX == 1
KIND_FLAG_IDX == 2
SHORT_SIZE_LEN == 1
LONG_SIZE_LEN == 8

RECURSIVE Pow2(_)
Pow2(k) == IF k = 0 THEN 1 ELSE 2 * Pow2(k - 1)

get_bit(n, bit) == IF bit < 8 THEN (n \div Pow2(bit)) % 2 = 1 ELSE FALSE

set_bit(n, bit) == IF bit < 8 /\ ~get_bit(n, bit) THEN n + Pow2(bit) ELSE n

\* enum Frame { Command(CommandFrame { name, data }), Message(MessageFrame { more, data }) }
\* as one record shape; a Command has more = FALSE, a Message has name = <<>>
new_command(cmd_name, data) ==
    [kind |-> "Command", more |-> FALSE, name |-> cmd_name, data |-> data]

new_message(more, data) ==
    [kind |-> "Message", more |-> more, name |-> <<>>, data |-> data]

NoFrame == [kind |-> "None", more |-> FALSE, name |-> <<>>, data |-> <<>>]

\* Result<Frame, FrameParseError>, and a panic of the call
FrameOk(f) == [tag |-> "Ok", err |-> "", frame |-> f]
FrameErr(e) == [tag |-> "Err", err |-> e, frame |-> NoFrame]
FramePanic(e) == [tag |-> "Panic", err |-> e, frame |-> NoFrame]
Pending == [tag |-> "Pending", err |-> "", frame |-> NoFrame]

-----------------------------------------------------------------------------
(* frame.rs: Frame::write_to                                               *)

\* the flags octet: MORE for a Message with more, LONG when the data is longer
\* than 255 bytes, COMMAND for a Command
WriteFlags(frame) ==
    LET f0 == IF frame.kind = "Message" /\ frame.more THEN set_bit(0, MORE_FLAG_IDX) ELSE 0
        f1 == IF Len(frame.data) > U8_MAX THEN set_bit(f0, LONG_FLAG_IDX) ELSE f0
    IN  IF frame.kind = "Command" THEN set_bit(f1, KIND_FLAG_IDX) ELSE f1

\* total_data_len: the data, plus the name's bytes for a Command
TotalDataLen(frame) ==
    IF frame.kind = "Command" THEN Len(frame.data) + Len(frame.name) ELSE Len(frame.data)

\* the width of the length field always one byte
LengthBytesLenShort(frame) == SHORT_SIZE_LEN

\* length_bytes_len: 8 when total_data_len exceeds 255, else 1
LengthBytesLen(frame) ==
    IF TotalDataLen(frame) > U8_MAX THEN LONG_SIZE_LEN ELSE SHORT_SIZE_LEN

\* length_bytes: the first length_bytes_len bytes of data.len().to_be_bytes()
LengthBytes(frame) == Take(UsizeToBeBytes(Len(frame.data)), LengthBytesLen(frame))

\* pre_data_buf: flags, length bytes, and for a Command its name and a NUL
PreDataBuf(frame) ==
    <<WriteFlags(frame)>> \o LengthBytes(frame)
        \o (IF frame.kind = "Command" THEN frame.name \o <<0>> ELSE <<>>)

\* every byte a completed write_to puts on the stream
Encoded(frame) == PreDataBuf(frame) \o frame.data

\* write_to is two awaited copies: pre_data_buf, then the data.
\* wr.pc: "idle" (no call), "data" (pre_data_buf copied, the data not yet)
WriterIdle == [pc |-> "idle", frame |-> NoFrame]

-----------------------------------------------------------------------------
(* frame.rs: Frame::read_new, one await at a time                          *)

\* rd.pc: "idle" (no call), then the await the call is suspended at:
\* "flags", "len", "name", "cmd_data", "msg_data"
ReaderIdle ==
    [pc |-> "idle", more_frames |-> FALSE, long |-> FALSE, kind |-> "Message",
     len_buf |-> <<>>, name |-> <<>>, out |-> Pending]

ReaderStart == [ReaderIdle EXCEPT !.pc = "flags"]

\* a step of read_new: [enabled, rd, s]: the reader afterwards (rd.out is set and
\* rd.pc is "idle" when the call returned) and the bytes left on the stream
Blocked(r, s) == [enabled |-> FALSE, rd |-> r, s |-> s]
Returns(result, s) == [enabled |-> TRUE, rd |-> [ReaderIdle EXCEPT !.out = result], s |-> s]
Goes(r, s) == [enabled |-> TRUE, rd |-> r, s |-> s]

\* stream.read_exact(buf) of n bytes, then k(buf, rest)
\* a short stream that has ended is an io::Error (UnexpectedEof), the bytes are gone
HasExact(s, n) == Len(s) >= n

\* position of the first 0x00 of s, 0 when there is none
NulIdx(s) ==
    LET Nuls == {i \in 1..Len(s) : s[i] = 0}
    IN  IF Nuls = {} THEN 0 ELSE Min(Nuls)

\* Vec::pop
Pop(v) == IF v = <<>> THEN v ELSE Take(v, Len(v) - 1)

\* the flags check with its loop one bit short: for bit in 3..7
ReadFlagsBits3To6(r, s, eof) ==
    IF HasExact(s, 1) THEN
        LET flag_bits == s[1]
            more_frames == get_bit(flag_bits, MORE_FLAG_IDX)
            long == get_bit(flag_bits, LONG_FLAG_IDX)
            kind == IF get_bit(flag_bits, KIND_FLAG_IDX) THEN "Command" ELSE "Message"
        IN  IF \E bit \in 3..6 : get_bit(flag_bits, bit)
            THEN Returns(FrameErr("Flags"), Drop(s, 1))
            ELSE Goes([r EXCEPT !.pc = "len", !.more_frames = more_frames,
                                !.long = long, !.kind = kind], Drop(s, 1))
    ELSE IF eof THEN Returns(FrameErr("Io"), <<>>)
    ELSE Blocked(r, s)

\* the await on the flags octet, and the checks up to the next await
ReadFlags(r, s, eof) ==
    IF HasExact(s, 1) THEN
        LET flag_bits == s[1]
            more_frames == get_bit(flag_bits, MORE_FLAG_IDX)
            long == get_bit(flag_bits, LONG_FLAG_IDX)
            kind == IF get_bit(flag_bits, KIND_FLAG_IDX) THEN "Command" ELSE "Message"
        IN  IF \E bit \in 3..7 : get_bit(flag_bits, bit)
            THEN Returns(FrameErr("Flags"), Drop(s, 1))
            ELSE Goes([r EXCEPT !.pc = "len", !.more_frames = more_frames,
                                !.long = long, !.kind = kind], Drop(s, 1))
    ELSE IF eof THEN Returns(FrameErr("Io"), <<>>)
    ELSE Blocked(r, s)

\* isize::MAX < data_len: the top bit of an 8-byte length
ExceedsIsizeMax(len_buf) == Len(len_buf) = LONG_SIZE_LEN /\ len_buf[1] >= 128

\* the length field read with no check of more_frames for a Command
ReadLenAnyCommand(r, s, eof) ==
    LET n == IF r.long THEN LONG_SIZE_LEN ELSE SHORT_SIZE_LEN
    IN  IF HasExact(s, n) THEN
            LET len_buf == Take(s, n)
                rest == Drop(s, n)
            IN  IF r.kind = "Command" THEN
                    Goes([r EXCEPT !.pc = "name", !.len_buf = len_buf], rest)
                ELSE IF ExceedsIsizeMax(len_buf)
                    THEN Returns(FramePanic("capacity overflow"), rest)
                    ELSE Goes([r EXCEPT !.pc = "msg_data", !.len_buf = len_buf], rest)
        ELSE IF eof THEN Returns(FrameErr("Io"), <<>>)
        ELSE Blocked(r, s)

\* the await on the length field (1 or 8 bytes), and the code up to the next await
ReadLen(r, s, eof) ==
    LET n == IF r.long THEN LONG_SIZE_LEN ELSE SHORT_SIZE_LEN
    IN  IF HasExact(s, n) THEN
            LET len_buf == Take(s, n)
                rest == Drop(s, n)
            IN  IF r.kind = "Command" THEN
                    IF r.more_frames
                    THEN Returns(FrameErr("MultipartCommand"), rest)
                    ELSE Goes([r EXCEPT !.pc = "name", !.len_buf = len_buf], rest)
                ELSE IF ExceedsIsizeMax(len_buf)
                    THEN Returns(FramePanic("capacity overflow"), rest)
                    ELSE Goes([r EXCEPT !.pc = "msg_data", !.len_buf = len_buf], rest)
        ELSE IF eof THEN Returns(FrameErr("Io"), <<>>)
        ELSE Blocked(r, s)

\* stream.read_until(0x00, ..): through the first NUL, or to the end of the stream;
\* then pop() and String::from_utf8
ReadName(r, s, eof) ==
    LET i == NulIdx(s)
        n == IF i > 0 THEN i ELSE Len(s)
        command_name_bytes == Pop(Take(s, n))
    IN  IF i > 0 \/ eof THEN
            IF Utf8Valid(command_name_bytes)
            THEN Goes([r EXCEPT !.pc = "cmd_data", !.name = command_name_bytes], Drop(s, n))
            ELSE Returns(FrameErr("CommandNameInvalidUtf8"), Drop(s, n))
        ELSE Blocked(r, s)

\* stream.read_to_end(&mut command_data): every byte until the stream ends
ReadCmdData(r, s, eof) ==
    IF eof THEN Returns(FrameOk(new_command(r.name, s)), <<>>) ELSE Blocked(r, s)

\* stream.read_to_end(&mut message_data): every byte until the stream ends
ReadMsgData(r, s, eof) ==
    IF eof THEN Returns(FrameOk(new_message(r.more_frames, s)), <<>>) ELSE Blocked(r, s)

ReadNewStep(r, s, eof) ==
    CASE r.pc = "flags"    -> ReadFlags(r, s, eof)
      [] r.pc = "len"      -> ReadLen(r, s, eof)
      [] r.pc = "name"     -> ReadName(r, s, eof)
      [] r.pc = "cmd_data" -> ReadCmdData(r, s, eof)
      [] r.pc = "msg_data" -> ReadMsgData(r, s, eof)
      [] OTHER             -> Blocked(r, s)

-----------------------------------------------------------------------------
(* Specification SpecFrame: a writer writes one or two frames to a stream  *)
(* and closes it; a reader calls read_new on the other end. Either side    *)
(* may abandon one call at an await.                                       *)

MaxFrames == 2
MaxReads == 2
MaxSmallLen == 1
BigSlack == 1

READY == <<82, 69, 65, 68, 89>>
ERROR == <<69, 82, 82, 79, 82>>

PayloadBytes == {0, 65}

\* payloads: every short one over PayloadBytes, and long ones around 255 bytes
Payloads ==
    StringsUpTo(PayloadBytes, MaxSmallLen)
        \cup {Rep(n, 66) : n \in (U8_MAX - BigSlack)..(U8_MAX + BigSlack)}

CommandNames == {<<>>, <<65>>, READY}

FrameSet ==
    {new_message(m, d) : m \in BOOLEAN, d \in Payloads}
        \cup {new_command(n, d) : n \in CommandNames, d \in Payloads}

FrameIdle ==
    /\ fFrames = <<>> /\ fNext = 1 /\ wr = WriterIdle /\ wire = <<>> /\ wireEof = FALSE
    /\ rd = ReaderIdle /\ fGot = <<>> /\ fWritten = 0 /\ fCancelled = "none"

\* the frames that may follow the first one on the stream
FollowFrames == {new_message(FALSE, <<65>>), new_command(READY, <<>>)}

FrameInit ==
    /\ \E f \in FrameSet :
         \E t \in UNION {[1..n -> FollowFrames] : n \in 0..(MaxFrames - 1)} :
            fFrames = <<f>> \o t
    /\ fNext = 1
    /\ wr = WriterIdle
    /\ wire = <<>>
    /\ wireEof = FALSE
    /\ rd = ReaderIdle
    /\ fGot = <<>>
    /\ fWritten = 0
    /\ fCancelled = "none"

\* write_to up to its first await: io::copy(pre_data_buf, stream)
FWritePre ==
    /\ wr.pc = "idle" /\ fNext <= Len(fFrames) /\ ~wireEof
    /\ wire' = wire \o PreDataBuf(fFrames[fNext])
    /\ fWritten' = fWritten + Len(PreDataBuf(fFrames[fNext]))
    /\ wr' = [pc |-> "data", frame |-> fFrames[fNext]]
    /\ fNext' = fNext + 1
    /\ UNCHANGED <<fFrames, wireEof, rd, fGot, fCancelled>>
    /\ UNCHANGED nonFrameVars

\* write_to's second await: io::copy(self.data(), stream)
FWriteData ==
    /\ wr.pc = "data"
    /\ wire' = wire \o wr.frame.data
    /\ fWritten' = fWritten + Len(wr.frame.data)
    /\ wr' = WriterIdle
    /\ UNCHANGED <<fFrames, fNext, wireEof, rd, fGot, fCancelled>>
    /\ UNCHANGED nonFrameVars

\* the caller drops the write_to future between its two awaits
FWriteCancel ==
    /\ wr.pc = "data" /\ fCancelled = "none"
    /\ wr' = WriterIdle
    /\ fCancelled' = "write"
    /\ UNCHANGED <<fFrames, fNext, wire, wireEof, rd, fGot, fWritten>>
    /\ UNCHANGED nonFrameVars

\* the writing side closes the stream after its last frame
FClose ==
    /\ wr.pc = "idle" /\ fNext > Len(fFrames) /\ ~wireEof
    /\ wireEof' = TRUE
    /\ UNCHANGED <<fFrames, fNext, wr, wire, rd, fGot, fWritten, fCancelled>>
    /\ UNCHANGED nonFrameVars

\* the reading side calls Frame::read_new
FReadCall ==
    /\ rd.pc = "idle" /\ Len(fGot) < MaxReads
    /\ rd' = ReaderStart
    /\ UNCHANGED <<fFrames, fNext, wr, wire, wireEof, fGot, fWritten, fCancelled>>
    /\ UNCHANGED nonFrameVars

\* the in-flight read_new passes its await
FReadStep ==
    LET r == ReadNewStep(rd, wire, wireEof)
    IN  /\ rd.pc # "idle"
        /\ r.enabled
        /\ wire' = r.s
        /\ IF r.rd.pc = "idle"
           THEN rd' = ReaderIdle /\ fGot' = Append(fGot, r.rd.out)
           ELSE rd' = r.rd /\ fGot' = fGot
        /\ UNCHANGED <<fFrames, fNext, wr, wireEof, fWritten, fCancelled>>
        /\ UNCHANGED nonFrameVars

\* the caller drops the read_new future at the await it is suspended at
FReadCancel ==
    /\ rd.pc # "idle" /\ fCancelled = "none"
    /\ rd' = ReaderIdle
    /\ fCancelled' = "read"
    /\ UNCHANGED <<fFrames, fNext, wr, wire, wireEof, fGot, fWritten>>
    /\ UNCHANGED nonFrameVars

FrameNext ==
    \/ FWritePre
    \/ FWriteData
    \/ FWriteCancel
    \/ FClose
    \/ FReadCall
    \/ FReadStep
    \/ FReadCancel

-----------------------------------------------------------------------------
(* handshake.rs: Properties                                                *)

\* char::is_alphanumeric, char::is_lowercase, str::to_lowercase on ASCII; a byte
\* of 128 or more is part of a multi-byte character, which is none of '-_.+'
IsDigit(b) == b >= 48 /\ b <= 57
IsUpper(b) == b >= 65 /\ b <= 90
IsLower(b) == b >= 97 /\ b <= 122
IsAlphanumeric(b) == IsDigit(b) \/ IsUpper(b) \/ IsLower(b)
IsNamePunct(b) == b \in {45, 95, 46, 43}
ToLowercase(str) == [i \in 1..Len(str) |-> IF IsUpper(str[i]) THEN str[i] + 32 ELSE str[i]]

\* Properties::new
EmptyMap == [k \in {} |-> <<>>]

\* HashMap::insert
MapInsert(m, k, v) == [x \in DOMAIN m \cup {k} |-> IF x = k THEN v ELSE m[x]]

\* an insert that stores the key as given
PropsInsertKeyAsGiven(m, key, value) == MapInsert(m, key, value)

\* Properties::insert: the key is lowercased
PropsInsert(m, key, value) == MapInsert(m, ToLowercase(key), value)

\* Properties::get: Option<&[u8]>
NoValue == [some |-> FALSE, value |-> <<>>]
PropsGet(m, key) ==
    IF ToLowercase(key) \in DOMAIN m
    THEN [some |-> TRUE, value |-> m[ToLowercase(key)]]
    ELSE NoValue

\* Result<Properties, PropertiesParseError>, and a panic of the call
PropsOk(m) == [tag |-> "Ok", err |-> "", map |-> m]
PropsErr(e) == [tag |-> "Err", err |-> e, map |-> EmptyMap]
PropsPanic(e) == [tag |-> "Panic", err |-> e, map |-> EmptyMap]
PropsNone == [tag |-> "None", err |-> "", map |-> EmptyMap]

\* the closure of the name check: c.is_alphanumeric() && ['-','_','.','+'].contains(&c)
NameCharOk(c) == IsAlphanumeric(c) /\ IsNamePunct(c)

\* the length of the value-size field
VALUE_SIZE_LEN == 4

\* Properties::parse_from_slice: the while loop over rest
RECURSIVE ParseLoop(_, _)
ParseLoop(rest, map) ==
    IF Len(rest) = 0 THEN PropsOk(map)
    ELSE
    LET name_size == rest[1]
        rest1 == Drop(rest, 1)
        name == Take(rest1, name_size)
        rest2 == Drop(rest1, name_size)
        value_size == FromBeBytes(Take(rest2, VALUE_SIZE_LEN))
        rest3 == Drop(rest2, VALUE_SIZE_LEN)
        value_bytes == Take(rest3, value_size)
    IN  IF name_size = 0 THEN PropsErr("ZeroSizedName")
        ELSE IF Len(rest1) < name_size THEN PropsErr("NameSizeIncorrect")
        ELSE IF ~Utf8Valid(name) THEN PropsErr("NameInvalidChar")
        ELSE IF ~(\A i \in 1..Len(name) : NameCharOk(name[i])) THEN PropsErr("NameInvalidChar")
        \* &rest[..4] on a slice shorter than 4 panics
        ELSE IF Len(rest2) < VALUE_SIZE_LEN THEN PropsPanic("slice index out of range")
        ELSE IF Len(rest3) < value_size THEN PropsErr("ValueSizeIncorrect")
        \* rest is left at the start of the value
        ELSE ParseLoop(rest3, MapInsert(map, ToLowercase(name), value_bytes))

parse_from_slice(bytes) == ParseLoop(bytes, EmptyMap)

\* Properties::write_to with the map iterated in the order of the key sequence order
RECURSIVE PropsWriteBuf(_, _)
PropsWriteBuf(m, order) ==
    IF order = <<>> THEN <<>>
    ELSE LET name == order[1]
             value == m[name]
         IN  UsizeToBeBytes(Len(name)) \o name \o UsizeToBeBytes(Len(value)) \o value
                 \o PropsWriteBuf(m, Tail(order))

\* the orders a HashMap of these keys may be iterated in
IterOrders(m) ==
    LET n == Cardinality(DOMAIN m)
    IN  {o \in [1..n -> DOMAIN m] : \A i, j \in 1..n : i # j => o[i] # o[j]}

-----------------------------------------------------------------------------
(* Specification SpecProps: a Properties map is built by inserts, written  *)
(* and parsed back; or the parser is handed raw bytes.                     *)

MaxKeyLen == 1
MaxInserts == 2
MaxRawLen == 6

SOCKET_TYPE_KEY == <<115, 111, 99, 107, 101, 116, 45, 116, 121, 112, 101>>
REQ == <<82, 69, 81>>
REP == <<82, 69, 80>>

\* keys of allowed characters only: 'A', 'a', '-', "socket-type" and "Socket-Type"
KeyBytes == {65, 97, 45}
\* "Socket-Type"
SOCKET_TYPE_KEY_MIXED == <<83, 111, 99, 107, 101, 116, 45, 84, 121, 112, 101>>
Keys ==
    (StringsUpTo(KeyBytes, MaxKeyLen) \ {<<>>}) \cup {SOCKET_TYPE_KEY, SOCKET_TYPE_KEY_MIXED}
Values == {<<>>, <<0>>, REQ}

\* raw parser inputs: 0 and 1 (lengths, and disallowed name bytes), 'a', '-'
RawBytes == {0, 1, 97, 45}
RawInputs == StringsUpTo(RawBytes, MaxRawLen)

PropsIdle ==
    /\ pPc = "idle" /\ pN = 0 /\ pMap = EmptyMap /\ pBuf = <<>> /\ pParsed = PropsNone
    /\ pLog = <<>>

PropsInit ==
    /\ pN = 0
    /\ pMap = EmptyMap
    /\ pParsed = PropsNone
    /\ pLog = <<>>
    /\ \/ pPc = "build" /\ pBuf = <<>>
       \/ pPc = "raw" /\ pBuf \in RawInputs

PInsert ==
    /\ pPc = "build" /\ pN < MaxInserts
    /\ \E k \in Keys, v \in Values :
           /\ pMap' = PropsInsert(pMap, k, v)
           /\ pLog' = Append(pLog, <<k, v>>)
    /\ pN' = pN + 1
    /\ UNCHANGED <<pPc, pBuf, pParsed>>
    /\ UNCHANGED nonPropsVars

PWrite ==
    /\ pPc = "build"
    /\ \E order \in IterOrders(pMap) : pBuf' = PropsWriteBuf(pMap, order)
    /\ pPc' = "written"
    /\ UNCHANGED <<pN, pMap, pParsed, pLog>>
    /\ UNCHANGED nonPropsVars

PParse ==
    /\ pPc \in {"written", "raw"}
    /\ pParsed' = parse_from_slice(pBuf)
    /\ pPc' = IF pPc = "raw" THEN "parsed_raw" ELSE "parsed"
    /\ UNCHANGED <<pN, pMap, pBuf, pLog>>
    /\ UNCHANGED nonPropsVars

PropsNext ==
    \/ PInsert
    \/ PWrite
    \/ PParse

-----------------------------------------------------------------------------
(* socket.rs: socket type names                                            *)

\* From<&SocketType> for &'static str
SocketName(t) ==
    CASE t = "Req"    -> REQ
      [] t = "Rep"    -> REP
      [] t = "Dealer" -> <<68, 69, 65, 76, 69, 82>>
      [] t = "Router" -> <<82, 79, 85, 84, 69, 82>>
      [] t = "Pub"    -> <<80, 85, 66>>
      [] t = "Sub"    -> <<83, 85, 66>>
      [] t = "XPub"   -> <<88, 80, 85, 66>>
      [] t = "XSub"   -> <<88, 83, 85, 66>>
      [] t = "Push"   -> <<80, 85, 83, 72>>
      [] t = "Pull"   -> <<80, 85, 76, 76>>
      [] t = "Pair"   -> <<80, 65, 73, 82>>

SUPPORTED_SOCKET_TYPES == {"Req", "Rep"}

\* Result<SocketType, SocketTypeFromBytesError>
SocketOk(t) == [tag |-> "Ok", err |-> "", type |-> t]
SocketErr(e) == [tag |-> "Err", err |-> e, type |-> "None"]
SocketNone == [tag |-> "None", err |-> "", type |-> "None"]

\* TryFrom<&[u8]> for SocketType
SocketTypeTryFrom(bytes) ==
    IF ~Utf8Valid(bytes) THEN SocketErr("NotUtf8")
    ELSE IF \A t \in SocketType : SocketName(t) # bytes THEN SocketErr("Unknown")
    ELSE LET socket_type == CHOOSE t \in SocketType : SocketName(t) = bytes
         IN  IF socket_type \notin SUPPORTED_SOCKET_TYPES
             THEN SocketErr("Unsupported")
             ELSE SocketOk(socket_type)

\* SocketType::from(remote_socket_type_bytes) on the Option that Properties::get
\* returns: the conversion from bytes is TryFrom<&[u8]>; None has no socket type
SocketTypeFrom(opt) ==
    IF opt.some THEN SocketTypeTryFrom(opt.value) ELSE SocketErr("Missing")

-----------------------------------------------------------------------------
(* frame.rs: Frame::new_fatal_error                                        *)

\* msg is the sequence of its characters, each the sequence of its UTF-8 bytes;
\* its bytes are those of its characters one after the other
RECURSIVE Flatten(_)
Flatten(chars) ==
    IF chars = <<>> THEN <<>>
    ELSE IF Len(chars) = 1 THEN chars[1]
    ELSE LET half == Len(chars) \div 2
         IN  Flatten(SubSeq(chars, 1, half)) \o Flatten(SubSeq(chars, half + 1, Len(chars)))

\* the loop with the test made before the char's width is known:
\* if final_byte_idx >= u8::max_value() { break }
LoopStepWidthIgnored(chars, i, final_byte_idx) ==
    IF i > Len(chars) \/ final_byte_idx >= U8_MAX
    THEN [done |-> TRUE, i |-> i, final_byte_idx |-> final_byte_idx]
    ELSE [done |-> FALSE, i |-> i + 1, final_byte_idx |-> final_byte_idx + Len(chars[i])]

\* one iteration of the for loop over msg.chars(), c being chars[i]: the loop is
\* done when the chars are used up or at the break
LoopStep(chars, i, final_byte_idx) ==
    IF i > Len(chars) \/ final_byte_idx + Len(chars[i]) > U8_MAX
    THEN [done |-> TRUE, i |-> i, final_byte_idx |-> final_byte_idx]
    ELSE [done |-> FALSE, i |-> i + 1, final_byte_idx |-> final_byte_idx + Len(chars[i])]

\* the for loop over msg.chars(): final_byte_idx
RECURSIVE FinalByteIdx(_, _, _)
FinalByteIdx(chars, i, final_byte_idx) ==
    LET st == LoopStep(chars, i, final_byte_idx)
    IN  IF st.done THEN st.final_byte_idx ELSE FinalByteIdx(chars, st.i, st.final_byte_idx)

\* str::is_char_boundary: the start, the end, or a byte that is no continuation byte
IsCharBoundary(bytes, idx) ==
    \/ idx = 0
    \/ idx = Len(bytes)
    \/ idx < Len(bytes) /\ bytes[idx + 1] \notin 128..191

\* the two places new_fatal_error can panic after the loop: &msg[..final_byte_idx]
\* past the end or off a char boundary, and u8::try_from(msg.len()).unwrap()
AfterLoopPanics(chars, final_byte_idx) ==
    \/ final_byte_idx > Len(Flatten(chars))
    \/ ~IsCharBoundary(Flatten(chars), final_byte_idx)
    \/ final_byte_idx > U8_MAX

\* the code after the loop: the Command built from msg[..final_byte_idx]
AfterLoopFrame(chars, final_byte_idx) ==
    LET msg == Take(Flatten(chars), final_byte_idx)
    IN  new_command(ERROR, <<Len(msg)>> \o msg)

\* the code after the loop as a whole: the frame, or a panic
AfterLoop(chars, final_byte_idx) ==
    IF AfterLoopPanics(chars, final_byte_idx) THEN FramePanic("new_fatal_error")
    ELSE FrameOk(AfterLoopFrame(chars, final_byte_idx))

new_fatal_error(chars) == AfterLoopFrame(chars, FinalByteIdx(chars, 1, 0))

\* "invalid socket combination"
INVALID_COMBO_MSG ==
    <<<<105>>, <<110>>, <<118>>, <<97>>, <<108>>, <<105>>, <<100>>, <<32>>,
      <<115>>, <<111>>, <<99>>, <<107>>, <<101>>, <<116>>, <<32>>,
      <<99>>, <<111>>, <<109>>, <<98>>, <<105>>, <<110>>, <<97>>, <<116>>, <<105>>,
      <<111>>, <<110>>>>

-----------------------------------------------------------------------------
(* lib.rs: Greeting::read_new, one field at a time                         *)

PADDING_LEN == 80
FILLER_LEN == 31
MECHANISM_LEN == 20

NULL_MECHANISM == <<78, 85, 76, 76>>

\* Result<Greeting, GreetingError>; byte is the octet an AsServer error carries
GreetingNone ==
    [tag |-> "None", err |-> "", byte |-> 0, version |-> <<0, 0>>, mechanism |-> "",
     as_server |-> ""]
GreetingErr(e, x) == [GreetingNone EXCEPT !.tag = "Err", !.err = e, !.byte = x]

\* a step of Greeting::read_new: [enabled, pc, g, s]: pc is the next field to read,
\* "returned" when the call returned g
GBlocked(pc, g, s) == [enabled |-> FALSE, pc |-> pc, g |-> g, s |-> s]
GGoes(pc, g, s) == [enabled |-> TRUE, pc |-> pc, g |-> g, s |-> s]
GFails(e, x, s) == [enabled |-> TRUE, pc |-> "returned", g |-> GreetingErr(e, x), s |-> s]

\* str::chars() of valid UTF-8: a char starts at every byte that is no
\* continuation byte
CharStarts(str) == {i \in 1..Len(str) : str[i] \notin 128..191}
CharAt(str, i) ==
    SubSeq(str, i, Min({j \in CharStarts(str) : j > i} \cup {Len(str) + 1}) - 1)
Chars(str) == {CharAt(str, i) : i \in CharStarts(str)}

\* char::is_lowercase, char::is_alphanumeric and membership in ['-', '_', '.', '+']:
\* ASCII, and of the multi-byte characters U+00C9 (uppercase letter), U+00E9
\* (lowercase letter) and U+20AC (no letter)
CharIsLowercase(c) == (Len(c) = 1 /\ IsLower(c[1])) \/ c = <<195, 169>>
CharIsAlphanumeric(c) ==
    (Len(c) = 1 /\ IsAlphanumeric(c[1])) \/ c \in {<<195, 137>>, <<195, 169>>}
CharIsNamePunct(c) == Len(c) = 1 /\ IsNamePunct(c[1])

\* the mechanism check without its is_lowercase test
MechanismCheckNoLowercase(str) ==
    \E c \in Chars(str) : ~(CharIsAlphanumeric(c) \/ CharIsNamePunct(c))

\* the mechanism check: is any character lowercase, or neither alphanumeric nor -_.+
MechanismHasInvalidChar(str) ==
    \E c \in Chars(str) :
        CharIsLowercase(c) \/ ~(CharIsAlphanumeric(c) \/ CharIsNamePunct(c))

GreetingStep(pc, g, s, eof) ==
    LET n == CASE pc = "sig"       -> 1 + PADDING_LEN + 1
               [] pc = "version"   -> 2
               [] pc = "mechanism" -> MECHANISM_LEN
               [] pc = "as_server" -> 1
               [] pc = "filler"    -> FILLER_LEN
               [] OTHER            -> 0
        buf == Take(s, n)
        rest == Drop(s, n)
    IN  IF pc \notin {"sig", "version", "mechanism", "as_server", "filler"}
        THEN GBlocked(pc, g, s)
        ELSE IF ~HasExact(s, n)
        THEN IF eof THEN GFails("Io", 0, <<>>) ELSE GBlocked(pc, g, s)
        ELSE CASE pc = "sig" ->
                    IF buf[1] # 255 THEN GFails("Signature", 0, rest)
                    ELSE IF buf[n] # 127 THEN GFails("Signature", 0, rest)
                    ELSE GGoes("version", g, rest)
               [] pc = "version" ->
                    GGoes("mechanism", [g EXCEPT !.version = buf], rest)
               [] pc = "mechanism" ->
                    LET null_idx == IF NulIdx(buf) > 0 THEN NulIdx(buf) - 1 ELSE Len(buf)
                        mechanism_str == Take(buf, null_idx)
                    IN  IF ~Utf8Valid(mechanism_str) THEN GFails("MechanismNotUtf8", 0, rest)
                        ELSE IF MechanismHasInvalidChar(mechanism_str)
                        THEN GFails("MechanismInvalidChar", 0, rest)
                        ELSE IF mechanism_str = NULL_MECHANISM
                        THEN GGoes("as_server", [g EXCEPT !.mechanism = "Null"], rest)
                        ELSE GFails("MechanismUnsupported", 0, rest)
               [] pc = "as_server" ->
                    IF buf[1] = 0 THEN GGoes("filler", [g EXCEPT !.as_server = "Client"], rest)
                    ELSE IF buf[1] = 1
                    THEN GGoes("filler", [g EXCEPT !.as_server = "Server"], rest)
                    ELSE GFails("AsServer", buf[1], rest)
               [] pc = "filler" ->
                    GGoes("returned", [g EXCEPT !.tag = "Ok"], rest)

-----------------------------------------------------------------------------
(* handshake/null.rs: NullHandshake::perform                               *)

\* the READY command sent first: its data is the written Properties
\* {"socket-type": <name of the local type>}
LocalReady(socket_type) ==
    LET properties == PropsInsert(EmptyMap, SOCKET_TYPE_KEY, SocketName(socket_type))
    IN  new_command(READY, PropsWriteBuf(properties, <<SOCKET_TYPE_KEY>>))

\* Result<Handshake, HandshakeError>
HandshakeNone == [tag |-> "None", err |-> "", detail |-> "", properties |-> EmptyMap]
HandshakeOk(props) == [HandshakeNone EXCEPT !.tag = "Ok", !.properties = props]
HandshakeErr(e, d) == [HandshakeNone EXCEPT !.tag = "Err", !.err = e, !.detail = d]

\* the end of perform with the name of the received command not compared
ReceiveReadyAnyCommand(received) ==
    IF received.tag = "Panic" THEN [HandshakeNone EXCEPT !.tag = "Panic", !.err = received.err]
    ELSE IF received.tag = "Err" THEN
        IF received.err = "Io" THEN HandshakeErr("Io", "")
        ELSE HandshakeErr("FrameParse", received.err)
    ELSE IF received.frame.kind = "Message" THEN HandshakeErr("NoReadyCommand", "")
    ELSE LET received_properties == parse_from_slice(received.frame.data)
         IN  IF received_properties.tag = "Panic"
             THEN [HandshakeNone EXCEPT !.tag = "Panic", !.err = received_properties.err]
             ELSE IF received_properties.tag = "Err"
             THEN HandshakeErr("PropertiesParse", received_properties.err)
             ELSE HandshakeOk(received_properties.map)

\* from the returned read_new to the end of perform
ReceiveReady(received) ==
    IF received.tag = "Panic" THEN [HandshakeNone EXCEPT !.tag = "Panic", !.err = received.err]
    ELSE IF received.tag = "Err" THEN
        IF received.err = "Io" THEN HandshakeErr("Io", "")
        ELSE HandshakeErr("FrameParse", received.err)
    ELSE IF received.frame.kind = "Message" THEN HandshakeErr("NoReadyCommand", "")
    ELSE IF received.frame.name # READY THEN HandshakeErr("NoReadyCommand", "")
    ELSE LET received_properties == parse_from_slice(received.frame.data)
         IN  IF received_properties.tag = "Panic"
             THEN [HandshakeNone EXCEPT !.tag = "Panic", !.err = received_properties.err]
             ELSE IF received_properties.tag = "Err"
             THEN HandshakeErr("PropertiesParse", received_properties.err)
             ELSE HandshakeOk(received_properties.map)

-----------------------------------------------------------------------------
(* lib.rs: Connection::new                                                 *)

\* Result<Connection, ConnectionError>
ConnPending == [tag |-> "Pending", err |-> "", detail |-> "", remote |-> "None"]
ConnOk(remote) == [ConnPending EXCEPT !.tag = "Ok", !.remote = remote]
ConnErr(e, d) == [ConnPending EXCEPT !.tag = "Err", !.err = e, !.detail = d]
ConnPanic(e) == [ConnPending EXCEPT !.tag = "Panic", !.err = e]

\* where Connection::new goes next: [pc, result]
Continue(pc) == [pc |-> pc, result |-> ConnPending]
Return(result) == [pc |-> "done", result |-> result]

\* Greeting::read_new(..).await with its error not propagated
AfterGreetingNoReturn(g) == Continue("ready_write")

\* Greeting::read_new(&mut stream).await?
AfterGreeting(g) ==
    IF g.tag = "Err" THEN Return(ConnErr("Greeting", g.err)) ELSE Continue("ready_write")

\* Handshake::perform(..).await?
AfterHandshake(h) ==
    IF h.tag = "Panic" THEN Return(ConnPanic(h.err))
    ELSE IF h.tag = "Err" THEN Return(ConnErr("Handshake", h.err))
    ELSE Continue("validate")

\* the "socket-type" property converted to a SocketType
RemoteSocketType(h) == SocketTypeFrom(PropsGet(h.properties, SOCKET_TYPE_KEY))

\* from the conversion of the remote socket type to the next await or the return
Validate(socket_type, remote) ==
    IF remote.tag = "Err" THEN Return(ConnErr("SocketType", remote.err))
    ELSE IF ~valid_socket_combo(socket_type, remote.type) THEN Continue("error_write")
    ELSE Return(ConnOk(remote.type))

\* the write_to call made on entering pc: the READY command of the handshake, or
\* the ERROR command built by new_fatal_error("invalid socket combination")
StartWrite(pc, socket_type) ==
    CASE pc = "ready_write" -> [pc |-> "pre", frame |-> LocalReady(socket_type)]
      [] pc = "error_write" -> [pc |-> "pre", frame |-> new_fatal_error(INVALID_COMBO_MSG)]
      [] OTHER -> WriterIdle

\* the states of the connection
ConnState ==
    CASE nResult.tag = "Ok" -> "Established"
      [] nResult.tag \in {"Err", "Panic"} -> "Closed"
      [] nPc \in {"sig", "version", "mechanism", "as_server", "filler"} -> "AwaitingGreeting"
      [] nPc \in {"ready_write", "ready_read"} -> "AwaitingHandshake"
      [] OTHER -> "Validating"

-----------------------------------------------------------------------------
(* The peer of the connection: what it sends                               *)

\* the wire layout of a map: per entry a 1-octet name length, the name, a 4-octet
\* big-endian value length, the value
RECURSIVE WireLayout(_, _)
WireLayout(m, order) ==
    IF order = <<>> THEN <<>>
    ELSE <<Len(order[1])>> \o order[1] \o BeBytes(Len(m[order[1]]), 4) \o m[order[1]]
             \o WireLayout(m, Tail(order))

\* a greeting on the wire, in the layout Greeting::read_new reads
MkGreeting(first, last, mechanism, as_server) ==
    <<first>> \o Rep(PADDING_LEN, 0) \o <<last>> \o <<3, 0>>
        \o mechanism \o Rep(MECHANISM_LEN - Len(mechanism), 0)
        \o <<as_server>> \o Rep(FILLER_LEN, 0)

GoodGreeting(as_server) == MkGreeting(255, 127, NULL_MECHANISM, as_server)

TruncatedLen == 100

PeerGreetings ==
    {GoodGreeting(0), GoodGreeting(1), GoodGreeting(2),
     MkGreeting(0, 127, NULL_MECHANISM, 0),
     MkGreeting(255, 0, NULL_MECHANISM, 0),
     MkGreeting(255, 127, <<110, 117, 108, 108>>, 0),
     MkGreeting(255, 127, <<80, 76, 65, 73, 78>>, 0),
     MkGreeting(255, 127, <<78, 32, 76>>, 0),
     MkGreeting(255, 127, <<255>>, 0),
     MkGreeting(255, 127, <<>>, 0),
     Take(GoodGreeting(0), TruncatedLen)}

\* a READY command frame in the wire format: flags 0x04, a 1-octet body length, the
\* NUL-terminated name, the properties {"socket-type": <name of t>} in the wire layout
WireReady(t) ==
    LET props == WireLayout(MapInsert(EmptyMap, SOCKET_TYPE_KEY, SocketName(t)),
                            <<SOCKET_TYPE_KEY>>)
    IN  <<4, Len(READY) + 1 + Len(props)>> \o READY \o <<0>> \o props

PeerReplies ==
    {WireReady(t) : t \in SocketType}
        \cup {Encoded(LocalReady(t)) : t \in SUPPORTED_SOCKET_TYPES}
        \cup {Encoded(new_command(READY, <<>>)), Encoded(new_command(READY, <<0>>)),
              Encoded(new_command(ERROR, <<>>)), Encoded(new_message(FALSE, <<>>)),
              <<8, 0>>, <<5, 0>>, <<>>}

-----------------------------------------------------------------------------
(* Specification Spec: Connection::new on a stream whose peer sends a      *)
(* greeting and one frame, and may close either direction at any time      *)

ConnIdle ==
    /\ nLocal = "Req" /\ nPeer = [greeting |-> <<>>, reply |-> <<>>, sent |-> 0]
    /\ nIn = <<>> /\ nInEof = FALSE /\ nOut = <<>> /\ nOutBroken = FALSE
    /\ nPc = "idle" /\ nGreeting = GreetingNone /\ nWr = WriterIdle /\ nRd = ReaderIdle
    /\ nHandshake = HandshakeNone /\ nRemote = SocketNone /\ nResult = ConnPending

ConnInit ==
    /\ nLocal \in SUPPORTED_SOCKET_TYPES
    /\ \E g \in PeerGreetings, r \in PeerReplies :
           nPeer = [greeting |-> g, reply |-> r, sent |-> 0]
    /\ nIn = <<>> /\ nInEof = FALSE /\ nOut = <<>> /\ nOutBroken = FALSE
    /\ nPc = "sig" /\ nGreeting = GreetingNone /\ nWr = WriterIdle /\ nRd = ReaderIdle
    /\ nHandshake = HandshakeNone /\ nRemote = SocketNone /\ nResult = ConnPending

\* the peer sends its greeting, then its frame
PeerSend ==
    /\ nPc # "done" /\ ~nInEof /\ nPeer.sent < 2
    /\ nIn' = nIn \o (IF nPeer.sent = 0 THEN nPeer.greeting ELSE nPeer.reply)
    /\ nPeer' = [nPeer EXCEPT !.sent = @ + 1]
    /\ UNCHANGED <<nLocal, nInEof, nOut, nOutBroken, nPc, nGreeting, nWr, nRd, nHandshake,
                   nRemote, nResult>>
    /\ UNCHANGED nonConnVars

\* the peer closes its sending side: reads see the end of the stream
PeerClose ==
    /\ nPc # "done" /\ ~nInEof
    /\ nInEof' = TRUE
    /\ UNCHANGED <<nLocal, nPeer, nIn, nOut, nOutBroken, nPc, nGreeting, nWr, nRd,
                   nHandshake, nRemote, nResult>>
    /\ UNCHANGED nonConnVars

\* the peer stops receiving: writes fail
PeerReset ==
    /\ nPc # "done" /\ ~nOutBroken
    /\ nOutBroken' = TRUE
    /\ UNCHANGED <<nLocal, nPeer, nIn, nInEof, nOut, nPc, nGreeting, nWr, nRd, nHandshake,
                   nRemote, nResult>>
    /\ UNCHANGED nonConnVars

\* Greeting::read_new passes an await; when it returns, Connection::new goes on
NGreet ==
    LET r == GreetingStep(nPc, nGreeting, nIn, nInEof)
        a == AfterGreeting(r.g)
    IN  /\ nPc \in {"sig", "version", "mechanism", "as_server", "filler"}
        /\ r.enabled
        /\ nIn' = r.s
        /\ nGreeting' = r.g
        /\ IF r.pc = "returned"
           THEN nPc' = a.pc /\ nResult' = a.result /\ nWr' = StartWrite(a.pc, nLocal)
           ELSE nPc' = r.pc /\ nResult' = nResult /\ nWr' = nWr
        /\ UNCHANGED <<nLocal, nPeer, nInEof, nOut, nOutBroken, nRd, nHandshake, nRemote>>
        /\ UNCHANGED nonConnVars

\* the write of the READY command not awaited to its end: perform goes on to
\* read_new once pre_data_buf is copied
NWriteNotAwaited ==
    LET h == HandshakeErr("Io", "")
    IN  /\ nPc \in {"ready_write", "error_write"}
        /\ IF nOutBroken
           THEN /\ nWr' = WriterIdle
                /\ nOut' = nOut
                /\ nRd' = nRd
                /\ IF nPc = "ready_write"
                   THEN /\ nHandshake' = h
                        /\ nPc' = AfterHandshake(h).pc
                        /\ nResult' = AfterHandshake(h).result
                   ELSE /\ nHandshake' = nHandshake
                        /\ nPc' = "done"
                        /\ nResult' = ConnErr("Io", "")
           ELSE /\ nOut' = nOut \o PreDataBuf(nWr.frame)
                /\ nWr' = WriterIdle
                /\ nHandshake' = nHandshake
                /\ IF nPc = "ready_write"
                   THEN nPc' = "ready_read" /\ nRd' = ReaderStart /\ nResult' = nResult
                   ELSE /\ nPc' = "done"
                        /\ nRd' = nRd
                        /\ nResult' = [ConnErr("InvalidSocketCombination", "")
                                           EXCEPT !.remote = nRemote.type]
        /\ UNCHANGED <<nLocal, nPeer, nIn, nInEof, nOutBroken, nGreeting, nRemote>>
        /\ UNCHANGED nonConnVars

\* Frame::write_to on the stream passes an await (a copy), for the READY command of
\* NullHandshake::perform or the ERROR command of Connection::new; a failed copy
\* returns the io::Error, which the caller propagates
NWrite ==
    LET h == HandshakeErr("Io", "")
    IN  /\ nPc \in {"ready_write", "error_write"}
        /\ IF nOutBroken
           THEN /\ nWr' = WriterIdle
                /\ nOut' = nOut
                /\ nRd' = nRd
                /\ IF nPc = "ready_write"
                   THEN /\ nHandshake' = h
                        /\ nPc' = AfterHandshake(h).pc
                        /\ nResult' = AfterHandshake(h).result
                   ELSE /\ nHandshake' = nHandshake
                        /\ nPc' = "done"
                        /\ nResult' = ConnErr("Io", "")
           ELSE IF nWr.pc = "pre"
           THEN /\ nOut' = nOut \o PreDataBuf(nWr.frame)
                /\ nWr' = [nWr EXCEPT !.pc = "data"]
                /\ UNCHANGED <<nPc, nRd, nHandshake, nResult>>
           ELSE /\ nOut' = nOut \o nWr.frame.data
                /\ nWr' = WriterIdle
                /\ nHandshake' = nHandshake
                /\ IF nPc = "ready_write"
                   THEN nPc' = "ready_read" /\ nRd' = ReaderStart /\ nResult' = nResult
                   ELSE /\ nPc' = "done"
                        /\ nRd' = nRd
                        /\ nResult' = [ConnErr("InvalidSocketCombination", "")
                                           EXCEPT !.remote = nRemote.type]
        /\ UNCHANGED <<nLocal, nPeer, nIn, nInEof, nOutBroken, nGreeting, nRemote>>
        /\ UNCHANGED nonConnVars

\* NullHandshake::perform: Frame::read_new(stream) passes an await; when it returns,
\* perform returns and Connection::new runs up to its next await or its return
NReadReady ==
    LET r == ReadNewStep(nRd, nIn, nInEof)
        h == ReceiveReady(r.rd.out)
        a == AfterHandshake(h)
        remote == RemoteSocketType(h)
        v == Validate(nLocal, remote)
    IN  /\ nPc = "ready_read"
        /\ r.enabled
        /\ nIn' = r.s
        /\ IF r.rd.pc # "idle"
           THEN nRd' = r.rd /\ UNCHANGED <<nPc, nWr, nHandshake, nRemote, nResult>>
           ELSE /\ nRd' = r.rd
                /\ nHandshake' = h
                /\ IF a.pc = "validate"
                   THEN /\ nRemote' = remote
                        /\ nPc' = v.pc
                        /\ nResult' = v.result
                        /\ nWr' = StartWrite(v.pc, nLocal)
                   ELSE nRemote' = nRemote /\ nPc' = a.pc /\ nResult' = a.result /\ nWr' = nWr
        /\ UNCHANGED <<nLocal, nPeer, nInEof, nOut, nOutBroken, nGreeting>>
        /\ UNCHANGED nonConnVars

ConnNext ==
    \/ PeerSend
    \/ PeerClose
    \/ PeerReset
    \/ NGreet
    \/ NWrite
    \/ NReadReady

-----------------------------------------------------------------------------
(* Specification SpecGreeting: Connection::new against peers whose         *)
(* greeting has valid signature markers and any mechanism and as-server    *)

MaxMechLen == 2

\* 'N', 'L', 'n', '-', ' ', '1'
MechBytes == {78, 76, 110, 45, 32, 49}

\* mechanism fields: every short one over MechBytes; "NULL" by itself, followed by
\* a NUL and more bytes, and as a prefix; other names; a full field without NUL;
\* multi-byte characters (U+00C9, U+00E9, U+20AC); bytes that are no UTF-8
Mechanisms ==
    StringsUpTo(MechBytes, MaxMechLen)
        \cup {NULL_MECHANISM, NULL_MECHANISM \o <<0, 110>>, NULL_MECHANISM \o <<88>>,
              <<78, 85, 76>>, <<110, 117, 108, 108>>, <<80, 76, 65, 73, 78>>,
              <<78, 85, 76, 76, 95, 46, 43, 45, 57>>, Rep(MECHANISM_LEN, 78),
              <<195, 137>>, <<195, 169>>, <<226, 130, 172>>, <<255>>, <<78, 128>>}

AsServerBytes == {0, 1, 2, 127, 255}

GreetingInputs ==
    {MkGreeting(255, 127, m, a) : m \in Mechanisms, a \in AsServerBytes}

GreetingInit ==
    /\ nLocal = "Req"
    /\ \E g \in GreetingInputs, r \in {<<>>, WireReady("Rep")} :
           nPeer = [greeting |-> g, reply |-> r, sent |-> 0]
    /\ nIn = <<>> /\ nInEof = FALSE /\ nOut = <<>> /\ nOutBroken = FALSE
    /\ nPc = "sig" /\ nGreeting = GreetingNone /\ nWr = WriterIdle /\ nRd = ReaderIdle
    /\ nHandshake = HandshakeNone /\ nRemote = SocketNone /\ nResult = ConnPending

-----------------------------------------------------------------------------
(* Specification SpecCombo: the compatibility matrix queried for one pair  *)

ComboIdle ==
    /\ cLocal = "Req" /\ cRemote = "Req" /\ cAsked = FALSE /\ cResult = FALSE

ComboInit ==
    /\ cLocal \in SocketType
    /\ cRemote \in SocketType
    /\ cAsked = FALSE
    /\ cResult = FALSE

ComboQuery ==
    /\ ~cAsked
    /\ cAsked' = TRUE
    /\ cResult' = valid_socket_combo(cLocal, cRemote)
    /\ UNCHANGED <<cLocal, cRemote>>
    /\ UNCHANGED nonComboVars

ComboNext == ComboQuery

-----------------------------------------------------------------------------
(* Specification SpecRead: Frame::read_new on a stream to which a peer     *)
(* sends arbitrary bytes one at a time, and which it may close at any time *)

\* what may follow the flags octet: nothing, short and long length fields, a
\* Message body, a Command body (name, NUL, data), a name without its NUL
RawTails ==
    {<<>>, <<0>>, <<1, 65>>, <<6>> \o READY \o <<0>>, <<2, 65, 0, 66>>, <<2, 65>>,
     <<0, 0, 0, 0, 0, 0, 0, 1, 65>>, <<0, 0, 0, 0, 0, 0, 0, 3, 65, 0, 66>>,
     <<0, 0, 0>>}

RawInputBytes == {<<flags>> \o t : flags \in Byte, t \in RawTails}

RawIdle ==
    /\ rIn = <<>> /\ rSent = 0 /\ rWire = <<>> /\ rEof = FALSE /\ rRd = ReaderIdle
    /\ rOut = Pending

\* read_new has been called on a stream that holds nothing yet
RawInit ==
    /\ rIn \in RawInputBytes
    /\ rSent = 0
    /\ rWire = <<>>
    /\ rEof = FALSE
    /\ rRd = ReaderStart
    /\ rOut = Pending

\* the peer sends its next byte
RSend ==
    /\ ~rEof /\ rSent < Len(rIn)
    /\ rWire' = Append(rWire, rIn[rSent + 1])
    /\ rSent' = rSent + 1
    /\ UNCHANGED <<rIn, rEof, rRd, rOut>>
    /\ UNCHANGED nonRawVars

\* the peer closes the stream, wherever it is in its bytes
RClose ==
    /\ ~rEof
    /\ rEof' = TRUE
    /\ UNCHANGED <<rIn, rSent, rWire, rRd, rOut>>
    /\ UNCHANGED nonRawVars

\* the in-flight read_new passes its await
RReadStep ==
    LET r == ReadNewStep(rRd, rWire, rEof)
    IN  /\ rRd.pc # "idle"
        /\ r.enabled
        /\ rWire' = r.s
        /\ IF r.rd.pc = "idle"
           THEN rRd' = ReaderIdle /\ rOut' = r.rd.out
           ELSE rRd' = r.rd /\ rOut' = rOut
        /\ UNCHANGED <<rIn, rSent, rEof>>
        /\ UNCHANGED nonRawVars

ReadNext ==
    \/ RSend
    \/ RClose
    \/ RReadStep

-----------------------------------------------------------------------------
(* Specification SpecError: Frame::new_fatal_error called on one message   *)

ErrSlack == 4

\* chars of 1, 2, 3 and 4 UTF-8 bytes: 'a', U+00E9, U+20AC, U+1F600
ErrChars == {<<97>>, <<195, 169>>, <<226, 130, 172>>, <<240, 159, 152, 128>>}

\* messages: short ones; runs of 'a' ending around 255 bytes followed by two chars
\* of any width; runs of a 3-byte and of a 4-byte char around 255 bytes
ErrMsgs ==
    {<<>>} \cup {<<c>> : c \in ErrChars}
        \cup {Rep(n, <<97>>) \o <<c1, c2>> :
                  n \in (U8_MAX - ErrSlack)..(U8_MAX + 1), c1 \in ErrChars, c2 \in ErrChars}
        \cup {Rep(n, <<226, 130, 172>>) : n \in 84..86}
        \cup {Rep(n, <<240, 159, 152, 128>>) : n \in 63..65}
        \cup {INVALID_COMBO_MSG}

ErrIdle == eMsg = <<>> /\ ePc = "idle" /\ eI = 1 /\ eIdx = 0 /\ eOut = Pending

\* the call has been made: final_byte_idx = 0, the loop at its first char
ErrInit == eMsg \in ErrMsgs /\ ePc = "loop" /\ eI = 1 /\ eIdx = 0 /\ eOut = Pending

\* one iteration of the loop (or its end)
ELoop ==
    LET st == LoopStep(eMsg, eI, eIdx)
    IN  /\ ePc = "loop"
        /\ eI' = st.i
        /\ eIdx' = st.final_byte_idx
        /\ ePc' = IF st.done THEN "slice" ELSE "loop"
        /\ UNCHANGED <<eMsg, eOut>>
        /\ UNCHANGED nonErrVars

\* from the slice to the return
EReturn ==
    /\ ePc = "slice"
    /\ eOut' = AfterLoop(eMsg, eIdx)
    /\ ePc' = "done"
    /\ UNCHANGED <<eMsg, eI, eIdx>>
    /\ UNCHANGED nonErrVars

ErrNext ==
    \/ ELoop
    \/ EReturn

-----------------------------------------------------------------------------
(* Specification SpecPair: Connection::new called at both ends of one      *)
(* duplex stream. The stream handed to a call may already hold the other   *)
(* end's greeting (written by whatever opened the stream), or nothing. A   *)
(* caller may drop its call; a call that returns an error drops its end.   *)

Ends == {1, 2}
Other(i) == 3 - i

\* one Connection::new call: its socket type, the await it is suspended at, its
\* locals, its result, and how many bytes it has written
SideStart(socket_type) ==
    [local |-> socket_type, pc |-> "sig", greeting |-> GreetingNone, wr |-> WriterIdle,
     rd |-> ReaderIdle, handshake |-> HandshakeNone, remote |-> SocketNone,
     result |-> ConnPending, sent |-> 0]

\* the caller dropped the future of Connection::new
ConnCancelled == [ConnPending EXCEPT !.tag = "Cancelled"]

\* end i no longer holds its stream: its call returned an error, panicked, or was
\* dropped; the other end then reads the end of the stream
Dropped(i) == dSide[i].result.tag \in {"Err", "Panic", "Cancelled"}

PairIdle ==
    /\ dPre = [i \in Ends |-> FALSE]
    /\ dSide = [i \in Ends |-> [SideStart("Req") EXCEPT !.pc = "idle"]]
    /\ dIn = [i \in Ends |-> <<>>]

\* end 1 is the client (as-server 0x00), end 2 the server (as-server 0x01)
PairInit ==
    /\ dPre \in [Ends -> BOOLEAN]
    /\ \E t \in [Ends -> SUPPORTED_SOCKET_TYPES] : dSide = [i \in Ends |-> SideStart(t[i])]
    /\ dIn = [i \in Ends |-> IF dPre[Other(i)] THEN GoodGreeting(i - 1) ELSE <<>>]

\* Greeting::read_new at end i passes an await; when it returns, Connection::new goes on
DGreetOf(i) ==
    LET c == dSide[i]
        r == GreetingStep(c.pc, c.greeting, dIn[i], Dropped(Other(i)))
        a == AfterGreeting(r.g)
    IN  /\ c.pc \in {"sig", "version", "mechanism", "as_server", "filler"}
        /\ r.enabled
        /\ dIn' = [dIn EXCEPT ![i] = r.s]
        /\ dSide' = [dSide EXCEPT ![i] =
               IF r.pc = "returned"
               THEN [c EXCEPT !.greeting = r.g, !.pc = a.pc, !.result = a.result,
                              !.wr = StartWrite(a.pc, c.local)]
               ELSE [c EXCEPT !.greeting = r.g, !.pc = r.pc]]
        /\ UNCHANGED dPre

DGreet ==
    /\ \E i \in Ends : DGreetOf(i)
    /\ UNCHANGED nonPairVars

\* Frame::write_to at end i passes an await (a copy); a copy to an end that has
\* dropped its stream may fail or be lost
DWriteOf(i, fails) ==
    LET c == dSide[i]
        h == HandshakeErr("Io", "")
        copied == IF c.wr.pc = "pre" THEN PreDataBuf(c.wr.frame) ELSE c.wr.frame.data
        arrives == IF Dropped(Other(i)) THEN <<>> ELSE copied
    IN  /\ c.pc \in {"ready_write", "error_write"}
        /\ IF fails
           THEN /\ dIn' = dIn
                /\ dSide' = [dSide EXCEPT ![i] =
                       IF c.pc = "ready_write"
                       THEN [c EXCEPT !.wr = WriterIdle, !.handshake = h,
                                      !.pc = AfterHandshake(h).pc,
                                      !.result = AfterHandshake(h).result]
                       ELSE [c EXCEPT !.wr = WriterIdle, !.pc = "done",
                                      !.result = ConnErr("Io", "")]]
           ELSE /\ dIn' = [dIn EXCEPT ![Other(i)] = @ \o arrives]
                /\ dSide' = [dSide EXCEPT ![i] =
                       IF c.wr.pc = "pre"
                       THEN [c EXCEPT !.wr.pc = "data", !.sent = @ + Len(copied)]
                       ELSE IF c.pc = "ready_write"
                       THEN [c EXCEPT !.wr = WriterIdle, !.sent = @ + Len(copied),
                                      !.pc = "ready_read", !.rd = ReaderStart]
                       ELSE [c EXCEPT !.wr = WriterIdle, !.sent = @ + Len(copied),
                                      !.pc = "done",
                                      !.result = [ConnErr("InvalidSocketCombination", "")
                                                     EXCEPT !.remote = c.remote.type]]]
        /\ UNCHANGED dPre

DWrite ==
    /\ \E i \in Ends :
           \E fails \in (IF Dropped(Other(i)) THEN BOOLEAN ELSE {FALSE}) : DWriteOf(i, fails)
    /\ UNCHANGED nonPairVars

\* NullHandshake::perform at end i: Frame::read_new passes an await; when it returns,
\* perform returns and Connection::new runs up to its next await or its return
DReadReadyOf(i) ==
    LET c == dSide[i]
        r == ReadNewStep(c.rd, dIn[i], Dropped(Other(i)))
        h == ReceiveReady(r.rd.out)
        a == AfterHandshake(h)
        remote == RemoteSocketType(h)
        v == Validate(c.local, remote)
    IN  /\ c.pc = "ready_read"
        /\ r.enabled
        /\ dIn' = [dIn EXCEPT ![i] = r.s]
        /\ dSide' = [dSide EXCEPT ![i] =
               IF r.rd.pc # "idle" THEN [c EXCEPT !.rd = r.rd]
               ELSE IF a.pc = "validate"
               THEN [c EXCEPT !.rd = r.rd, !.handshake = h, !.remote = remote,
                              !.pc = v.pc, !.result = v.result,
                              !.wr = StartWrite(v.pc, c.local)]
               ELSE [c EXCEPT !.rd = r.rd, !.handshake = h, !.pc = a.pc,
                              !.result = a.result]]
        /\ UNCHANGED dPre

DReadReady ==
    /\ \E i \in Ends : DReadReadyOf(i)
    /\ UNCHANGED nonPairVars

\* the caller at end i drops the future of Connection::new, and with it the stream
DCancel ==
    /\ \E i \in Ends :
           /\ dSide[i].pc \notin {"idle", "done"}
           /\ dSide' = [dSide EXCEPT ![i] = [@ EXCEPT !.pc = "done", !.result = ConnCancelled,
                                                     !.wr = WriterIdle]]
    /\ UNCHANGED <<dPre, dIn>>
    /\ UNCHANGED nonPairVars

PairNext ==
    \/ DGreet
    \/ DWrite
    \/ DReadReady
    \/ DCancel

-----------------------------------------------------------------------------
(* The specifications                                                      *)

InitOfConn == ConnInit /\ ComboIdle /\ FrameIdle /\ PropsIdle /\ RawIdle /\ ErrIdle /\ PairIdle
Spec == InitOfConn /\ [][ConnNext]_vars

InitOfGreeting == GreetingInit /\ ComboIdle /\ FrameIdle /\ PropsIdle /\ RawIdle /\ ErrIdle /\ PairIdle
SpecGreeting == InitOfGreeting /\ [][ConnNext]_vars

InitOfFrame == FrameInit /\ ComboIdle /\ PropsIdle /\ ConnIdle /\ RawIdle /\ ErrIdle /\ PairIdle
SpecFrame == InitOfFrame /\ [][FrameNext]_vars

InitOfProps == PropsInit /\ ComboIdle /\ FrameIdle /\ ConnIdle /\ RawIdle /\ ErrIdle /\ PairIdle
SpecProps == InitOfProps /\ [][PropsNext]_vars

InitOfCombo == ComboInit /\ FrameIdle /\ PropsIdle /\ ConnIdle /\ RawIdle /\ ErrIdle /\ PairIdle
SpecCombo == InitOfCombo /\ [][ComboNext]_vars

InitOfRead == RawInit /\ ComboIdle /\ FrameIdle /\ PropsIdle /\ ConnIdle /\ ErrIdle /\ PairIdle
SpecRead == InitOfRead /\ [][ReadNext]_vars

InitOfPair == PairInit /\ ComboIdle /\ FrameIdle /\ PropsIdle /\ ConnIdle /\ RawIdle /\ ErrIdle
SpecPair == InitOfPair /\ [][PairNext]_vars

InitOfError == ErrInit /\ ComboIdle /\ FrameIdle /\ PropsIdle /\ ConnIdle /\ RawIdle /\ PairIdle
SpecError == InitOfError /\ [][ErrNext]_vars

-----------------------------------------------------------------------------
(* Properties checked under SpecFrame                                      *)

\* the stream offsets at which a frame of fFrames starts or ends
RECURSIVE EncodedLen(_, _)
EncodedLen(frames, n) ==
    IF n = 0 THEN 0 ELSE EncodedLen(frames, n - 1) + Len(Encoded(frames[n]))

FrameBoundaries == {EncodedLen(fFrames, n) : n \in 0..Len(fFrames)}

\* the bytes of the frames from the i-th on, back to back
RECURSIVE EncodedFrom(_, _)
EncodedFrom(frames, i) ==
    IF i > Len(frames) THEN <<>> ELSE Encoded(frames[i]) \o EncodedFrom(frames, i + 1)

\* C3: with two or more frames written back to back (and no call abandoned), the
\* i-th read_new returns the i-th frame, and after the first read_new has returned
\* the unread bytes of a fully written stream are exactly the frames from the second on
C3_ReadsOneFrameAtATime ==
    (fCancelled = "none" /\ Len(fFrames) >= 2) =>
        /\ \A i \in 1..Len(fGot) : i <= Len(fFrames) => fGot[i] = FrameOk(fFrames[i])
        /\ (Len(fGot) = 1 /\ rd.pc = "idle" /\ wireEof) => wire = EncodedFrom(fFrames, 2)

\* C4: a single Message frame written by write_to and read back by read_new (no call
\* abandoned) comes back as a Message with the same more flag and the same payload
C4_MessageRoundTrip ==
    (fCancelled = "none" /\ Len(fFrames) = 1 /\ fFrames[1].kind = "Message" /\ Len(fGot) >= 1) =>
        fGot[1] = FrameOk(fFrames[1])

\* a long Message with more set was written, and read back as a frame
C4_Witness ==
    /\ fCancelled = "none" /\ Len(fFrames) = 1 /\ fFrames[1].kind = "Message"
    /\ fFrames[1].more /\ Len(fFrames[1].data) > U8_MAX
    /\ Len(fGot) >= 1 /\ fGot[1].tag = "Ok"

\* C5: a single Command frame written by write_to and read back by read_new (no call
\* abandoned) comes back as a Command with the same name and the same data
C5_CommandRoundTrip ==
    (fCancelled = "none" /\ Len(fFrames) = 1 /\ fFrames[1].kind = "Command" /\ Len(fGot) >= 1) =>
        fGot[1] = FrameOk(fFrames[1])

\* C9: after a read_new was abandoned the bytes consumed from the stream end at a
\* frame boundary, and after a write_to was abandoned the bytes written do
C9_CancelIsAtomic ==
    /\ (fCancelled = "read" /\ rd.pc = "idle" /\ fGot = <<>>) =>
           (fWritten - Len(wire)) \in FrameBoundaries
    /\ (fCancelled = "write" /\ wr.pc = "idle") => fWritten \in FrameBoundaries

\* write_to has copied pre_data_buf for the first frame and nothing has been read:
\* the stream holds exactly what precedes the frame's data
HeaderOnTheStream ==
    /\ fNext = 2 /\ wr.pc = "data" /\ wr.frame = fFrames[1]
    /\ fWritten = Len(wire)

\* the LONG bit of a flags octet
LongBitOf(flags) == (flags \div 2) % 2 = 1

\* C19: a Message with a body of L bytes: after the flags octet comes one octet equal
\* to L (LONG clear) when L <= 255, and L as an 8-byte big-endian integer (LONG set)
\* when L > 255
C19_MessageLengthField ==
    (HeaderOnTheStream /\ fFrames[1].kind = "Message") =>
        LET L == Len(fFrames[1].data)
        IN  IF L <= 255
            THEN ~LongBitOf(wire[1]) /\ Tail(wire) = <<L>>
            ELSE LongBitOf(wire[1]) /\ Tail(wire) = BeBytes(L, 8)

\* C20: a Command with name N and payload D, body size B = Len(N) + 1 + Len(D): LONG
\* is set exactly when B > 255, the length field is 8 bytes with LONG and 1 byte
\* without, and its value is B
C20_CommandLengthField ==
    (HeaderOnTheStream /\ fFrames[1].kind = "Command") =>
        LET B == Len(fFrames[1].name) + 1 + Len(fFrames[1].data)
            width == IF LongBitOf(wire[1]) THEN 8 ELSE 1
        IN  /\ LongBitOf(wire[1]) <=> B > 255
            /\ Tail(wire) = BeBytes(B, width) \o fFrames[1].name \o <<0>>

-----------------------------------------------------------------------------
(* Properties checked under SpecCombo                                      *)

\* the table of compatible (local, remote) pairs
CompatTable ==
    {<<"Req", "Rep">>, <<"Req", "Router">>,
     <<"Rep", "Req">>, <<"Rep", "Dealer">>,
     <<"Dealer", "Rep">>, <<"Dealer", "Dealer">>, <<"Dealer", "Router">>,
     <<"Router", "Req">>, <<"Router", "Dealer">>, <<"Router", "Router">>,
     <<"Pub", "Sub">>, <<"Pub", "XSub">>,
     <<"XPub", "Sub">>, <<"XPub", "XSub">>,
     <<"Sub", "Pub">>, <<"Sub", "XPub">>,
     <<"XSub", "Pub">>, <<"XSub", "XPub">>,
     <<"Push", "Pull">>, <<"Pull", "Push">>, <<"Pair", "Pair">>}

\* C10: for every ordered pair of the eleven socket types valid_socket_combo answers
\* true exactly for the pairs of the table, and answers the same for the swapped pair
C10_MatrixMatchesTable ==
    cAsked =>
        /\ cResult = (<<cLocal, cRemote>> \in CompatTable)
        /\ cResult = valid_socket_combo(cRemote, cLocal)

\* the matrix was asked about a local REQ and a remote ROUTER and accepted
C10_Witness ==
    cAsked /\ cLocal = "Req" /\ cRemote = "Router" /\ cResult

-----------------------------------------------------------------------------
(* Properties checked under SpecProps                                      *)

\* C6: a map of allowed-character keys written by write_to has the wire layout,
\* and parse_from_slice of the written bytes returns the same (lowercase) keys and values
C6_PropertiesRoundTrip ==
    /\ pPc \in {"written", "parsed"} => \E order \in IterOrders(pMap) : pBuf = WireLayout(pMap, order)
    /\ pPc = "parsed" => pParsed = PropsOk(pMap)

\* the characters a property name may use: alphanumerics and -_.+
AllowedNameChar(b) == IsAlphanumeric(b) \/ IsNamePunct(b)

\* C7: parse_from_slice never panics and names the malformed shape of the first
\* entry: zero-length name, name longer than the rest, disallowed character,
\* truncated value-length field, value longer than the rest
C7_ParseErrorsAreSpecific ==
    pPc = "parsed_raw" =>
        /\ pParsed.tag \in {"Ok", "Err"}
        /\ Len(pBuf) >= 1 =>
            LET n == pBuf[1]
                fits == n > 0 /\ Len(pBuf) - 1 >= n
                name == SubSeq(pBuf, 2, n + 1)
                good == fits /\ \A i \in 1..n : AllowedNameChar(name[i])
                after == Drop(pBuf, n + 1)
                whole == good /\ Len(after) >= 4
            IN  /\ n = 0 => pParsed = PropsErr("ZeroSizedName")
                /\ (n > 0 /\ ~fits) => pParsed = PropsErr("NameSizeIncorrect")
                /\ (fits /\ ~good) => pParsed = PropsErr("NameInvalidChar")
                /\ (good /\ ~whole) => pParsed = PropsErr("ValueSizeIncomplete")
                /\ (whole /\ FromBeBytes(Take(after, 4)) > Len(after) - 4) =>
                       pParsed = PropsErr("ValueSizeIncorrect")

-----------------------------------------------------------------------------
(* Properties checked under Spec                                           *)

\* the peer sent a well-formed greeting and then a READY declaring socket type t,
\* nothing was cut short, and Connection::new (local type REQ) has returned
ScenarioDone(t) ==
    /\ nLocal = "Req"
    /\ nPeer.greeting \in {GoodGreeting(0), GoodGreeting(1)}
    /\ nPeer.reply = WireReady(t)
    /\ nPeer.sent = 2
    /\ ~nOutBroken
    /\ nPc = "done"

\* C1: local REQ, well-formed greeting, peer READY declaring REP: the greeting
\* parses, exactly the local READY is sent, and Connection::new returns Ok with
\* remote socket type REP
C1_ReqRepEstablished ==
    ScenarioDone("Rep") =>
        /\ nGreeting.tag = "Ok"
        /\ nOut = Encoded(LocalReady("Req"))
        /\ nResult = ConnOk("Rep")

\* C2: local REQ, well-formed greeting, peer READY declaring PUB: one ERROR command
\* frame is written after the local READY and Connection::new returns
\* InvalidSocketCombination(REQ, PUB)
C2_ReqPubRejected ==
    ScenarioDone("Pub") =>
        /\ nOut = Encoded(LocalReady("Req")) \o Encoded(new_fatal_error(INVALID_COMBO_MSG))
        /\ nResult = [ConnErr("InvalidSocketCombination", "") EXCEPT !.remote = "Pub"]

\* the frame read by the handshake is a READY command whose data parses as Properties
ReadyReceived ==
    /\ nRd.out.tag = "Ok"
    /\ nRd.out.frame.kind = "Command"
    /\ nRd.out.frame.name = READY
    /\ parse_from_slice(nRd.out.frame.data) = PropsOk(nHandshake.properties)

C13_OnlyReadyAccepted ==
    nRd.out.tag = "Ok" =>
        LET received == nRd.out.frame
            parsed == parse_from_slice(received.data)
        IN  /\ nOut = Encoded(LocalReady(nLocal))
            /\ (received.kind = "Message" \/ received.name # READY) =>
                   /\ nHandshake = HandshakeErr("NoReadyCommand", "")
                   /\ nHandshake.properties = EmptyMap
                   /\ ConnState = "Closed"
            /\ (received.kind = "Command" /\ received.name = READY /\ parsed.tag = "Err") =>
                   /\ nHandshake = HandshakeErr("PropertiesParse", parsed.err)
                   /\ ConnState = "Closed"

\* a Command named "ERROR" was received in place of READY: NoReadyCommand
C13_Witness ==
    /\ nRd.out.tag = "Ok"
    /\ nRd.out.frame.kind = "Command"
    /\ nRd.out.frame.name = ERROR
    /\ nHandshake.err = "NoReadyCommand"

\* s is a prefix of t
IsPrefix(s, t) == Len(s) <= Len(t) /\ s = Take(t, Len(s))

\* the READY command frame of the local socket type as it lies on the stream: flags
\* 0x04, one length octet, "READY", NUL, and the serialized Properties
\* {"socket-type": "REQ" or "REP"}
ReadyOnTheStream ==
    LET canonical == IF nLocal = "Req" THEN <<82, 69, 81>> ELSE <<82, 69, 80>>
        payload == UsizeToBeBytes(11) \o SOCKET_TYPE_KEY \o UsizeToBeBytes(3) \o canonical
    IN  <<4, LengthBytes(new_command(READY, payload))[1]>> \o READY \o <<0>> \o payload

\* C14: NullHandshake::perform has written the whole local READY frame before its
\* read_new starts (no byte is taken by read_new before that), and the stream never
\* holds more than the one READY (followed at most by the ERROR command)
C14_ReadyBeforeRead ==
    /\ (nRd # ReaderIdle) => nOut = ReadyOnTheStream
    /\ nPc = "ready_write" => nRd = ReaderIdle
    /\ IsPrefix(nOut, ReadyOnTheStream \o Encoded(new_fatal_error(INVALID_COMBO_MSG)))

\* read_new has taken bytes of the peer's frame, after the READY was written
C14_Witness ==
    /\ nPc = "ready_read"
    /\ nRd.pc \notin {"idle", "flags"}
    /\ nOut = ReadyOnTheStream

\* the greeting the peer sends has a wrong first or last signature octet
BadSignature ==
    LET g == nPeer.greeting
    IN  g[1] # 255 \/ g[1 + PADDING_LEN + 1] # 127

\* C15: a greeting with a wrong first or last signature octet: once the signature
\* has arrived and been read, Greeting::read_new has failed with Signature and
\* Connection::new has returned that error; nothing is ever written to the stream,
\* no handshake is attempted and no frame is read
C15_SignatureStopsConnection ==
    /\ (BadSignature /\ nPeer.sent >= 1 /\ nPc # "sig") =>
           /\ nGreeting = GreetingErr("Signature", 0)
           /\ nResult = ConnErr("Greeting", "Signature")
    /\ (BadSignature \/ nGreeting.err = "Signature") =>
           /\ nOut = <<>>
           /\ nWr = WriterIdle
           /\ nRd = ReaderIdle
           /\ nHandshake = HandshakeNone

\* the greeting whose first signature octet is 0x00 was read: Signature
C15_Witness ==
    /\ nPeer.greeting[1] = 0
    /\ nPeer.sent = 2
    /\ nResult = ConnErr("Greeting", "Signature")

\* the peer sent a well-formed greeting and then a whole READY command frame (in the
\* wire layout, or as this implementation writes it), and still receives
ReadyDelivered ==
    /\ nPeer.greeting \in {GoodGreeting(0), GoodGreeting(1)}
    /\ nPeer.reply \in {WireReady(t) : t \in SocketType}
                           \cup {Encoded(LocalReady(t)) : t \in SUPPORTED_SOCKET_TYPES}
    /\ nPeer.sent = 2
    /\ ~nOutBroken

\* Connection::new is at an await that the bytes already delivered let it pass
CodeCanStep ==
    \/ /\ nPc \in {"sig", "version", "mechanism", "as_server", "filler"}
       /\ GreetingStep(nPc, nGreeting, nIn, nInEof).enabled
    \/ nPc \in {"ready_write", "error_write"}
    \/ nPc = "ready_read" /\ ReadNewStep(nRd, nIn, nInEof).enabled

\* C21: once the peer's whole READY frame is delivered and while the peer keeps the
\* stream open, NullHandshake::perform has returned or can take its next step: it
\* never waits for the end of the stream
C21_ReturnsWithoutEof ==
    (ReadyDelivered /\ ~nInEof /\ nHandshake.tag = "None") => CodeCanStep

\* C22: the peer's READY declares any of the eleven socket types: the remote type is
\* parsed as that type, and Connection::new returns Ok when the pair is in the
\* compatibility table and InvalidSocketCombination(local, remote) when it is not
C22_AllRemoteTypesAccepted ==
    \A t \in SocketType :
        (/\ nPeer.greeting \in {GoodGreeting(0), GoodGreeting(1)}
         /\ nPeer.reply = WireReady(t)
         /\ nPeer.sent = 2
         /\ ~nOutBroken
         /\ nPc = "done") =>
            /\ nRemote = SocketOk(t)
            /\ IF <<nLocal, t>> \in CompatTable
               THEN nResult = ConnOk(t)
               ELSE nResult = [ConnErr("InvalidSocketCombination", "") EXCEPT !.remote = t]

-----------------------------------------------------------------------------
(* Properties checked under SpecGreeting                                   *)

\* the mechanism name the peer's greeting carries: the 20-byte field after the
\* signature and the version, up to its first NUL
SentMechanism ==
    LET field == SubSeq(nPeer.greeting, 1 + PADDING_LEN + 1 + 2 + 1,
                        1 + PADDING_LEN + 1 + 2 + MECHANISM_LEN)
        nuls == {i \in 1..Len(field) : field[i] = 0}
    IN  IF nuls = {} THEN field ELSE SubSeq(field, 1, Min(nuls) - 1)

\* the as-server octet the peer's greeting carries
SentAsServer == nPeer.greeting[1 + PADDING_LEN + 1 + 2 + MECHANISM_LEN + 1]

\* the name has a lowercase character or one outside alphanumerics and -_.+
\* (ASCII, and the three multi-byte characters of Mechanisms)
NameHasBadChar(name) ==
    \/ \E i \in 1..Len(name) :
           /\ name[i] < 128
           /\ name[i] \notin (48..57) \cup (65..90) \cup {45, 95, 46, 43}
    \/ \E i \in 1..(Len(name) - 1) : <<name[i], name[i + 1]>> = <<195, 169>>
    \/ \E i \in 1..(Len(name) - 2) : <<name[i], name[i + 1], name[i + 2]>> = <<226, 130, 172>>

-----------------------------------------------------------------------------
(* Properties checked under SpecRead                                       *)

\* the flags octet the peer sent has one of bits 3-7 set
ReservedBitSet(flags) == flags \div 8 # 0

\* the width of the length field that follows a flags octet
LengthWidthOf(flags) == IF (flags \div 2) % 2 = 1 THEN 8 ELSE 1

\* C11: once read_new has returned on a stream that delivered a flags octet with
\* one of bits 3-7 set, it returned the Flags error, having taken the flags octet
\* and nothing else
C11_ReservedBitsRejected ==
    (rOut # Pending /\ rSent >= 1 /\ ReservedBitSet(rIn[1])) =>
        /\ rOut = FrameErr("Flags")
        /\ Len(rWire) = rSent - 1

\* flags 0xFF followed by a complete Command body: the Flags error was returned
C11_Witness ==
    /\ rIn = <<255, 6>> \o READY \o <<0>>
    /\ rSent = Len(rIn)
    /\ rOut = FrameErr("Flags")

\* C12: flags with COMMAND and MORE set and bits 3-7 clear: read_new returns an
\* error, MultipartCommand once the length field has been read (a stream that
\* ends before the end of the length field gives the I/O error); and a Command
\* is returned only from a flags octet with MORE clear
C12_MultipartCommandRejected ==
    /\ (rOut # Pending /\ rIn[1] \in {5, 7}) =>
           /\ rOut.tag = "Err"
           /\ IF rEof /\ rSent < 1 + LengthWidthOf(rIn[1])
              THEN rOut.err = "Io"
              ELSE rOut.err = "MultipartCommand"
    /\ (rOut.tag = "Ok" /\ rOut.frame.kind = "Command") => rIn[1] % 2 = 0

\* flags 0x07 (MORE, LONG, COMMAND) and an 8-byte length: MultipartCommand
C12_Witness ==
    /\ rIn[1] = 7
    /\ rSent >= 9
    /\ rOut = FrameErr("MultipartCommand")

-----------------------------------------------------------------------------
(* Properties checked under SpecError                                      *)

\* the bytes of the first k chars of the message
PrefixBytes(k) == Flatten(SubSeq(eMsg, 1, k))

-----------------------------------------------------------------------------
(* Properties checked under SpecProps: keys                                *)

\* two keys that differ at most in the case of their ASCII letters
FoldCase(b) == IF b >= 97 /\ b <= 122 THEN b - 32 ELSE b
SameIgnoringCase(a, b) ==
    Len(a) = Len(b) /\ \A i \in 1..Len(a) : FoldCase(a[i]) = FoldCase(b[i])

\* the value of the last insert made under a case variant of k
LastStored(k) ==
    LET made == {i \in 1..Len(pLog) : SameIgnoringCase(pLog[i][1], k)}
        last == CHOOSE i \in made : \A j \in made : j <= i
    IN  IF made = {} THEN NoValue ELSE [some |-> TRUE, value |-> pLog[last][2]]

HasNoUppercase(k) == \A i \in 1..Len(k) : k[i] \notin 65..90

\* C18: after any inserts (while the map is being built; it does not change
\* afterwards), and in a successfully parsed map, every stored key is
\* lowercase; get(k) returns the value last stored under any case variant of k;
\* no two stored keys differ only in case
C18_KeysIgnoreCase ==
    /\ pPc = "build" =>
           /\ \A k \in DOMAIN pMap : HasNoUppercase(k)
           /\ \A k \in Keys : PropsGet(pMap, k) = LastStored(k)
           /\ \A k1, k2 \in DOMAIN pMap : SameIgnoringCase(k1, k2) => k1 = k2
    /\ pParsed.tag = "Ok" => \A k \in DOMAIN pParsed.map : HasNoUppercase(k)

\* "Socket-Type" -> "REQ" was inserted and "socket-type" looks it up
C18_Witness ==
    /\ pLog = <<<<SOCKET_TYPE_KEY_MIXED, REQ>>>>
    /\ PropsGet(pMap, SOCKET_TYPE_KEY) = [some |-> TRUE, value |-> REQ]

-----------------------------------------------------------------------------
(* Properties checked under SpecPair                                       *)

\* the call at end i is suspended at a read that the bytes delivered do not let it pass
BlockedReading(i) ==
    LET c == dSide[i]
    IN  \/ /\ c.pc \in {"sig", "version", "mechanism", "as_server", "filler"}
           /\ ~GreetingStep(c.pc, c.greeting, dIn[i], Dropped(Other(i))).enabled
        \/ /\ c.pc = "ready_read"
           /\ ~ReadNewStep(c.rd, dIn[i], Dropped(Other(i))).enabled

\* two calls of Connection::new, REQ at one end and REP at the other, on a stream
\* that held nothing, neither call dropped
PlainCompatiblePair ==
    /\ \A i \in Ends : ~dPre[i] /\ dSide[i].result.tag # "Cancelled"
    /\ {dSide[1].local, dSide[2].local} = {"Req", "Rep"}

\* C23: two calls of Connection::new with REQ and REP on one duplex stream: they are
\* never both suspended at a read with nothing written by either, and when neither
\* can take a step any more both have returned Ok (Established)
C23_PairConnects ==
    PlainCompatiblePair =>
        /\ ~(/\ \A i \in Ends : BlockedReading(i)
             /\ \A i \in Ends : dSide[i].sent = 0)
        /\ (\A i \in Ends : BlockedReading(i) \/ dSide[i].pc = "done") =>
               \A i \in Ends : dSide[i].result.tag = "Ok"

====
